---- MODULE Spec2Model ----
(***************************************************************************)
(* Identity and access management of lancify-backend: the one-time-code   *)
(* service (utils/lib.js), the authentication controllers                  *)
(* (user.controller.js, verifyOtp.controller.js, teams.controller.js),    *)
(* the two gates, the route table and the task endpoints that embed user  *)
(* rows (Taskboard.controller.js).  Every request is a process; every     *)
(* await on the store, the mail transport or the identity verifier is one *)
(* step, so that requests interleave exactly where the event loop lets    *)
(* them.                                                                   *)
(***************************************************************************)
EXTENDS Integers, Sequences, FiniteSets, TLC

\* ------------------------------------------------------------------ bounds
MaxRequests == 3
MaxClock == 3
MaxIssues == 3

Procs == {1, 2}

\* ------------------------------------------------------------------ values
\* JS undefined / null / "" are all falsy in the handlers' guards; one falsy
\* value per type stands for them.
NoString == ""
NoPassword == <<>>
NoHash == <<>>

ValidEmails == {"a@x.com", "b@x.com", "B@X.COM"}
MalformedEmail == "not-an-email"
AllEmails == ValidEmails \cup {MalformedEmail, NoString}

\* validator.isEmail
isEmail(email) == email \in ValidEmails

\* Passwords are sequences of characters.
Lowercase == {"a", "b"}
Uppercase == {"A"}
Numbers == {"1"}
Symbols == {"!"}
WeakPassword == <<"w", "e", "a", "k">>
StrongPassword == <<"A", "a", "1", "!", "a", "a", "a", "a">>
OtherPassword == <<"A", "b", "1", "!", "b", "b", "b", "b">>

CountIn(s, class) == Cardinality({i \in 1..Len(s) : s[i] \in class})

\* validator.isStrongPassword with its defaults: minLength 8 and one of each
\* character class.
MinLength == 8
isStrongPassword(password) ==
    /\ Len(password) >= MinLength
    /\ CountIn(password, Lowercase \cup {"w", "e", "k"}) >= 1
    /\ CountIn(password, Uppercase) >= 1
    /\ CountIn(password, Numbers) >= 1
    /\ CountIn(password, Symbols) >= 1

\* A hash function that yields no hash.
BcryptHash_null(password) == NoHash

\* bcrypt.hash: the hash is not the password and determines it for compare.
BcryptHash(password) == <<"$2b$10$">> \o password

\* The codes generateOTP can draw, a sample of "100000".."999999", and the
\* code clients submit: right or wrong according to the code that was drawn.
OtpSpace == {"123456", "654321"}
SubmittedOtp == "123456"

DefaultExpiryMinutes == 10
MsPerMinute == 60 * 1000
ClockStep == 5 * MsPerMinute

NoRecord == [otp |-> NoString, expiresAt |-> -1]

\* jsonwebtoken: a token is the signed payload; the secret it was signed with
\* decides who accepts it.
\* `expired` says whether the token has outlived its expiresIn when it is
\* presented.
NoToken == [secret |-> NoString, id |-> 0, email |-> NoString, role |-> NoString,
            expired |-> FALSE]

\* lib.js generateAccessToken
generateAccessToken(id, email, role) ==
    [secret |-> "ACCESS_TOKEN_SECRET", id |-> id, email |-> email, role |-> role,
     expired |-> FALSE]

\* lib.js generateRefreshToken
generateRefreshToken(id, email) ==
    [secret |-> "REFRESH_TOKEN_SECRET", id |-> id, email |-> email, role |-> NoString,
     expired |-> FALSE]

\* A token presented after its expiresIn has passed.
Outlived(token) == [token EXCEPT !.expired = TRUE]

\* jsonwebtoken jwt.verify(token, secret): the signature is checked before
\* the expiry.
jwtVerify(token, secret) ==
    IF token.secret # secret THEN "JsonWebTokenError"
    ELSE IF token.expired THEN "TokenExpiredError"
    ELSE "decoded"

\* The identity tokens a client can present and what Google says of each.
GoogleTokens == {"idtoken-a", "idtoken-a-moved", "idtoken-unverified", "idtoken-forged"}
NoClaim == [googleId |-> NoString, email |-> NoString, name |-> NoString,
            emailVerified |-> FALSE]

\* lib.js verifyGoogleIdToken: the payload of the ticket (client.verifyIdToken
\* rejects a forged token, see GoogleRejects).
verifyGoogleIdToken(idToken) ==
    CASE idToken = "idtoken-a" ->
           [googleId |-> "sub-1", email |-> "a@x.com", name |-> "Ann",
            emailVerified |-> TRUE]
      [] idToken = "idtoken-a-moved" ->
           [googleId |-> "sub-1", email |-> "b@x.com", name |-> "Ann",
            emailVerified |-> TRUE]
      [] idToken = "idtoken-a-other" ->
           [googleId |-> "sub-3", email |-> "a@x.com", name |-> "Ann",
            emailVerified |-> TRUE]
      [] idToken = "idtoken-unverified" ->
           [googleId |-> "sub-2", email |-> "b@x.com", name |-> "Bea",
            emailVerified |-> FALSE]
      [] OTHER -> NoClaim
GoogleRejects(idToken) == idToken = "idtoken-forged"

VARIABLES
    now,        \* Date.now(), in milliseconds
    users,      \* table user: a sequence of rows, the id is the position
    emailOtp,   \* table emailOtp: email -> row, NoRecord when absent
    tasks,      \* table task: a sequence of rows, the id is the position
    pc,         \* where each request is
    req,        \* the request each process handles
    loc,        \* the handler's local variables
    last,       \* the request answered last and the answer it got
    started,    \* number of requests started so far
    issueNo,    \* history: number of upserts into emailOtp so far
    issued,     \* history: upsert -> the email and the code it wrote
    otpIssue,   \* history: email -> the upsert that wrote its row
    accepted,   \* history: upsert -> number of verifications it satisfied
    origin      \* history: for each user row, the request that created it

vars == <<now, users, emailOtp, tasks, pc, req, loc, last, started,
          issueNo, issued, otpIssue, accepted, origin>>

store == <<users, emailOtp, tasks>>
history == <<issueNo, issued, otpIssue, accepted, origin>>

NoReq == [kind |-> "none"]
NoLoc == [email |-> NoString, name |-> NoString, googleId |-> NoString,
          isGoogleSignUp |-> FALSE, isEmailVerified |-> FALSE,
          passwordHash |-> NoHash, record |-> NoRecord, issue |-> 0,
          role |-> NoString, status |-> NoString, user |-> <<>>,
          delivered |-> FALSE]

\* ------------------------------------------------------------------ replies
\* ApiResponse(statusCode, message, data); data is <<>> when there is none.
ApiResponse(statusCode, message, data) ==
    [status |-> statusCode, message |-> message, data |-> data]
ApiErrorSend(statusCode, message) ==
    [status |-> statusCode, message |-> message, data |-> <<>>]
\* An exception nobody in the handler catches: it leaves the handler.
Thrown(message) == [status |-> -1, message |-> message, data |-> <<>>]
NoResp == [status |-> 0, message |-> NoString, data |-> <<>>]

Init ==
    /\ now = 0
    /\ users = <<>>
    /\ emailOtp = [e \in AllEmails |-> NoRecord]
    /\ tasks = <<>>
    /\ pc = [p \in Procs |-> "idle"]
    /\ req = [p \in Procs |-> NoReq]
    /\ loc = [p \in Procs |-> NoLoc]
    /\ last = [req |-> NoReq, resp |-> NoResp]
    /\ started = 0
    /\ issueNo = 0
    /\ issued = [i \in 1..MaxIssues |-> [email |-> NoString, otp |-> NoString]]
    /\ otpIssue = [e \in AllEmails |-> 0]
    /\ accepted = [i \in 1..MaxIssues |-> 0]
    /\ origin = <<>>

\* ------------------------------------------------------------------ steps
\* A request arrives at an idle process.
Arrive(p) ==
    /\ pc[p] = "idle"
    /\ started < MaxRequests
    /\ started' = started + 1

\* The handler of request r goes on to its next await with locals l.
Proceed(p, r, label, l) ==
    /\ pc' = [pc EXCEPT ![p] = label]
    /\ req' = [req EXCEPT ![p] = r]
    /\ loc' = [loc EXCEPT ![p] = l]
    /\ UNCHANGED last

\* The handler of request r ends with answer a: a response sent, or an error
\* that left it.
Answer(p, r, a) ==
    /\ pc' = [pc EXCEPT ![p] = "idle"]
    /\ req' = [req EXCEPT ![p] = NoReq]
    /\ loc' = [loc EXCEPT ![p] = NoLoc]
    /\ last' = [req |-> r, resp |-> a]

Tick ==
    /\ now < MaxClock * ClockStep
    /\ now' = now + ClockStep
    /\ UNCHANGED <<store, pc, req, loc, last, started, history>>

\* ------------------------------------------------- one-time-code service
\* lib.js getExpiry
getExpiry(minutes) == now + minutes * MsPerMinute

\* An upsert that leaves a row that is already there as it is.
UpsertOtp_keepsExisting(email, otp, expiresAt) ==
    IF emailOtp[email] # NoRecord THEN emailOtp
    ELSE [emailOtp EXCEPT ![email] = [otp |-> otp, expiresAt |-> expiresAt]]

\* lib.js sendOtp: table emailOtp after prisma.emailOtp.upsert({where:
\* {email}, update: {otp, expiresAt}, create: {email, otp, expiresAt}}).
UpsertOtp(email, otp, expiresAt) ==
    [emailOtp EXCEPT ![email] = [otp |-> otp, expiresAt |-> expiresAt]]

\* lib.js sendOtp, up to and including the upsert.
sendOtp_upsert(p) ==
    /\ pc[p] = "sendOtp_upsert"
    /\ issueNo < MaxIssues
    /\ \E otp \in OtpSpace :
         /\ emailOtp' = UpsertOtp(req[p].email, otp,
                                  getExpiry(DefaultExpiryMinutes))
         /\ issued' = [issued EXCEPT ![issueNo + 1] =
                          [email |-> req[p].email, otp |-> otp]]
    /\ issueNo' = issueNo + 1
    /\ otpIssue' = [otpIssue EXCEPT ![req[p].email] = issueNo + 1]
    /\ Proceed(p, req[p], "sendOtp_sendMail", loc[p])
    /\ UNCHANGED <<now, users, tasks, started, accepted, origin>>

\* What each caller of sendOtp answers once it returns.
OtpSentReply(kind) ==
    IF kind = "signup" THEN ApiResponse(200, "OTP sent to your email.", <<>>)
    ELSE IF kind = "forgotPassword"
         THEN ApiResponse(200, "OTP has been sent to your email.", <<>>)
         ELSE ApiResponse(200, "OTP resent successfully.", <<>>)

\* lib.js sendOtp: transporter.sendMail, which resolves or rejects.
sendOtp_sendMail(p) ==
    /\ pc[p] = "sendOtp_sendMail"
    /\ \E delivered \in BOOLEAN :
         Proceed(p, req[p], "sendOtp_return",
                 [loc[p] EXCEPT !.delivered = delivered])
    /\ UNCHANGED <<now, store, started, history>>

\* A caller that answers "code sent" whatever became of the mail.
sendOtp_return_ignoresOutcome(p) ==
    /\ pc[p] = "sendOtp_return"
    /\ Answer(p, req[p], OtpSentReply(req[p].kind))
    /\ UNCHANGED <<now, store, started, history>>

\* sendOtp returns to the handler that awaits it: a rejection of sendMail
\* leaves sendOtp and the handler as an exception, otherwise the handler
\* answers that the code was sent.
sendOtp_return(p) ==
    /\ pc[p] = "sendOtp_return"
    /\ Answer(p, req[p], IF loc[p].delivered THEN OtpSentReply(req[p].kind)
                          ELSE Thrown("sendMail rejected"))
    /\ UNCHANGED <<now, store, started, history>>

\* user.controller.js resendOtp
resendOtp(p) ==
    /\ \E email \in {"a@x.com", MalformedEmail} :
         /\ Arrive(p)
         /\ IF ~isEmail(email)
            THEN Answer(p, [kind |-> "resendOtp", email |-> email], ApiErrorSend(400, "Invalid email format."))
            ELSE Proceed(p, [kind |-> "resendOtp", email |-> email], "sendOtp_upsert", NoLoc)
    /\ UNCHANGED <<now, store, history>>

\* lib.js verifyOtpCode: the test made on the row read.
OtpRejected(record, otp) ==
    \/ record = NoRecord
    \/ record.otp # otp
    \/ record.expiresAt < now

\* ------------------------------------------------------- table user
\* prisma.user.findFirst / findUnique: the ids of the rows that match.
UserIds == 1..Len(users)
FindByEmail(email) == {i \in UserIds : users[i].email = email}
FindFirstExisting(email, googleId, mobileNumber) ==
    {i \in UserIds :
        \/ users[i].email = email
        \/ (googleId # NoString /\ users[i].googleId = googleId)
        \/ (mobileNumber # NoString /\ users[i].mobileNumber = mobileNumber)}

\* The unique indexes of table user: create fails when the new row would
\* repeat the email, or the subject id, of a stored row.
UniqueViolation(row) ==
    \E i \in UserIds :
        \/ users[i].email = row.email
        \/ (row.googleId # NoString /\ users[i].googleId = row.googleId)

\* The copy-and-omit of passwordHash and refreshToken before a row is sent.
UserSafe(row) ==
    [id |-> row.id, name |-> row.name, email |-> row.email,
     googleId |-> row.googleId, isGoogleSignUp |-> row.isGoogleSignUp,
     isEmailVerified |-> row.isEmailVerified,
     mobileNumber |-> row.mobileNumber, role |-> row.role,
     status |-> row.status]

\* prisma.user.update({where: {id}, data: {refreshToken}})
SetRefreshToken(id, token) ==
    users' = [users EXCEPT ![id].refreshToken = token]

\* --------------------------------------------------------------- signup
Mobiles == {NoString, "99999999", "12ab"}
\* validator.isMobilePhone(mobileNumber, "any")
isMobilePhone(mobileNumber) == mobileNumber = "99999999"

SignupBase ==
    [kind |-> "signup", name |-> NoString, email |-> NoString,
     mobileNumber |-> NoString, password |-> NoPassword, googleId |-> NoString,
     otp |-> NoString, role |-> NoString]

\* The bodies of POST /signup that are tried: none of the credentials, the
\* third-party path with each identity token (with and without fields of the
\* client's own), and the password path.
SignupBodies ==
    {SignupBase}
    \cup {[SignupBase EXCEPT !.googleId = t] : t \in GoogleTokens}
    \cup {[SignupBase EXCEPT !.googleId = t, !.name = "Mallory",
                             !.email = "b@x.com", !.role = "user"] :
            t \in {"idtoken-a"}}
    \cup {[SignupBase EXCEPT !.email = e, !.password = pw, !.otp = o] :
            e \in {"a@x.com"}, pw \in {WeakPassword, StrongPassword},
            o \in {NoString, SubmittedOtp}}
    \cup {[SignupBase EXCEPT !.email = MalformedEmail,
                             !.password = StrongPassword]}
    \cup {[SignupBase EXCEPT !.email = "B@X.COM", !.password = StrongPassword,
                             !.otp = o] : o \in {NoString, SubmittedOtp}}
    \cup {[SignupBase EXCEPT !.email = "a@x.com", !.password = StrongPassword,
                             !.otp = o, !.mobileNumber = m] :
            o \in {SubmittedOtp}, m \in Mobiles \ {NoString}}

\* A signup that lets the request choose the role.
SignupRole_fromBody(body) ==
    IF body.role # NoString THEN body.role ELSE "admin"

\* user.controller.js signup: the role of the row it creates.
SignupRole(body) == "admin"

\* A signup that creates the account without asking for a code.
SignupPasswordPath_noCode(body) ==
    IF body.otp = NoString THEN "signup_findFirst"
    ELSE "verifyOtpCode_findUnique"

\* user.controller.js signup: where the password path goes once the email is
\* well-formed: without a code it sends one and answers, with a code it
\* verifies it.
SignupPasswordPath(body) ==
    IF body.otp = NoString THEN "sendOtp_upsert"
    ELSE "verifyOtpCode_findUnique"

\* user.controller.js signup: the mobile number check that precedes the
\* lookup of an existing user.
signup_beforeLookup(p, body, l) ==
    IF body.mobileNumber # NoString /\ ~isMobilePhone(body.mobileNumber)
    THEN Answer(p, body, ApiErrorSend(400, "Invalid mobile number."))
    ELSE Proceed(p, body, "signup_findFirst", l)

\* user.controller.js signup, up to its first await on the store.
signup(p) ==
    /\ \E body \in SignupBodies :
         /\ Arrive(p)
         /\ IF ~(body.googleId # NoString
                 \/ (body.email # NoString /\ body.password # NoPassword))
            THEN Answer(p, body, ApiErrorSend(400,
                         "Google sign-up or email + password is required."))
            ELSE IF body.googleId # NoString
            THEN IF GoogleRejects(body.googleId)
                 THEN Answer(p, body, Thrown("verifyIdToken rejected"))
                 ELSE LET googleUser == verifyGoogleIdToken(body.googleId) IN
                      IF ~googleUser.emailVerified
                      THEN Answer(p, body, ApiErrorSend(403,
                                   "Google account email not verified."))
                      ELSE signup_beforeLookup(p, body,
                             [NoLoc EXCEPT
                                !.googleId = googleUser.googleId,
                                !.email = googleUser.email,
                                !.name = IF body.name # NoString THEN body.name
                                         ELSE googleUser.name,
                                !.isGoogleSignUp = TRUE])
            ELSE IF ~isEmail(body.email)
            THEN Answer(p, body, ApiErrorSend(400, "Invalid email format."))
            ELSE Proceed(p, body, SignupPasswordPath(body),
                         [NoLoc EXCEPT !.email = body.email,
                                       !.name = body.name])
    /\ UNCHANGED <<now, store, history>>

\* What signup does with verifyOtpCode's answer, up to its next await.
signup_afterVerify(p, otpVerified) ==
    IF ~otpVerified
    THEN Answer(p, req[p], ApiErrorSend(400, "Invalid or expired OTP."))
    ELSE IF ~isStrongPassword(req[p].password)
    THEN Answer(p, req[p], ApiErrorSend(400,
                 "Password must be at least 8 characters long and include letters, numbers, and symbols."))
    ELSE signup_beforeLookup(p, req[p],
            [loc[p] EXCEPT !.isEmailVerified = TRUE,
                           !.passwordHash = BcryptHash(req[p].password)])

\* ------------------------------------------------------- forgotPassword
ForgotBase == [kind |-> "forgotPassword", email |-> "a@x.com",
               otp |-> NoString, newPassword |-> NoPassword]

\* The bodies of POST /forgot-password that are tried: the request for a
\* code, the reset with a strong and with a weak password, a code without a
\* password, and a malformed email.
ForgotBodies ==
    {ForgotBase,
     [ForgotBase EXCEPT !.otp = SubmittedOtp, !.newPassword = OtherPassword],
     [ForgotBase EXCEPT !.otp = SubmittedOtp, !.newPassword = WeakPassword],
     [ForgotBase EXCEPT !.otp = SubmittedOtp],
     [ForgotBase EXCEPT !.email = MalformedEmail]}

\* user.controller.js forgotPassword, up to its first await.
forgotPassword(p) ==
    /\ \E body \in ForgotBodies :
         /\ Arrive(p)
         /\ IF ~isEmail(body.email)
            THEN Answer(p, body, ApiErrorSend(400, "Valid email is required."))
            ELSE Proceed(p, body, "forgotPassword_findUnique",
                          [NoLoc EXCEPT !.email = body.email])
    /\ UNCHANGED <<now, store, history>>

\* A forgotPassword that verifies the code before it looks at the password.
ForgotPasswordPath_verifyFirst(body) == "verifyOtpCode_findUnique"

\* user.controller.js forgotPassword with a code and a new password: the
\* strength check comes first, and only a strong password goes on to
\* verifyOtpCode.
ForgotPasswordPath(body) ==
    IF ~isStrongPassword(body.newPassword) THEN "weak"
    ELSE "verifyOtpCode_findUnique"

\* user.controller.js forgotPassword: the lookup of the user and the choice
\* between sending a code and resetting.
forgotPassword_findUnique(p) ==
    /\ pc[p] = "forgotPassword_findUnique"
    /\ LET body == req[p] IN
         IF FindByEmail(body.email) = {}
         THEN Answer(p, body, ApiErrorSend(404, "User not found."))
         ELSE IF body.otp = NoString /\ body.newPassword = NoPassword
         THEN Proceed(p, body, "sendOtp_upsert", loc[p])
         ELSE IF body.otp # NoString /\ body.newPassword # NoPassword
         THEN IF ForgotPasswordPath(body) = "weak"
              THEN Answer(p, body, ApiErrorSend(400,
                     "Password must be at least 8 characters long and include letters, numbers, and symbols."))
              ELSE Proceed(p, body, ForgotPasswordPath(body), loc[p])
         ELSE Answer(p, body, ApiErrorSend(400, "Invalid request."))
    /\ UNCHANGED <<now, store, started, history>>

\* A forgotPassword that goes on to the update whatever verifyOtpCode said.
forgotPassword_afterVerify_unchecked(p, otpVerified) ==
    Proceed(p, req[p], "forgotPassword_update",
            [loc[p] EXCEPT !.passwordHash = BcryptHash(req[p].newPassword)])

\* What forgotPassword does with verifyOtpCode's answer, up to its next
\* await.
forgotPassword_afterVerify(p, otpVerified) ==
    IF ~otpVerified
    THEN Answer(p, req[p], ApiErrorSend(400, "Invalid or expired OTP."))
    ELSE Proceed(p, req[p], "forgotPassword_update",
                  [loc[p] EXCEPT !.passwordHash = BcryptHash(req[p].newPassword)])

\* user.controller.js forgotPassword: prisma.user.update of passwordHash
\* and the response.
forgotPassword_update(p) ==
    /\ pc[p] = "forgotPassword_update"
    /\ IF FindByEmail(req[p].email) = {}
       THEN /\ Answer(p, req[p], Thrown("Record to update not found."))
            /\ UNCHANGED users
       ELSE /\ users' = [users EXCEPT
                           ![CHOOSE i \in FindByEmail(req[p].email) : TRUE].passwordHash =
                               loc[p].passwordHash]
            /\ Answer(p, req[p], ApiResponse(200, "Password reset successful.", <<>>))
    /\ UNCHANGED <<now, emailOtp, tasks, started, history>>

\* verifyOtpCode returns to the handler that called it.
verifyOtpCode_return(p, otpVerified) ==
    IF req[p].kind = "forgotPassword"
    THEN forgotPassword_afterVerify(p, otpVerified)
    ELSE signup_afterVerify(p, otpVerified)

\* A verifyOtpCode that removes the row of the email when it refuses a code.
verifyOtpCode_findUnique_burnsRow(p) ==
    /\ pc[p] = "verifyOtpCode_findUnique"
    /\ LET record == emailOtp[req[p].email] IN
         IF OtpRejected(record, req[p].otp)
         THEN /\ emailOtp' = [emailOtp EXCEPT ![req[p].email] = NoRecord]
              /\ verifyOtpCode_return(p, FALSE)
         ELSE /\ UNCHANGED emailOtp
              /\ Proceed(p, req[p], "verifyOtpCode_deleteMany",
                         [loc[p] EXCEPT !.record = record,
                                        !.issue = otpIssue[req[p].email]])
    /\ UNCHANGED <<now, users, tasks, started, history>>

\* lib.js verifyOtpCode: findUnique and the test on what it read.
verifyOtpCode_findUnique(p) ==
    /\ pc[p] = "verifyOtpCode_findUnique"
    /\ LET record == emailOtp[req[p].email] IN
         IF OtpRejected(record, req[p].otp)
         THEN verifyOtpCode_return(p, FALSE)
         ELSE Proceed(p, req[p], "verifyOtpCode_deleteMany",
                       [loc[p] EXCEPT !.record = record,
                                      !.issue = otpIssue[req[p].email]])
    /\ UNCHANGED <<now, store, started, history>>

\* A verifyOtpCode that returns true and leaves the row in place.
DeleteManyOtp_skipped(email) == emailOtp

\* lib.js verifyOtpCode: table emailOtp after deleteMany({where: {email}}).
DeleteManyOtp(email) == [emailOtp EXCEPT ![email] = NoRecord]

\* lib.js verifyOtpCode: deleteMany, after which it returns true.
verifyOtpCode_deleteMany(p) ==
    /\ pc[p] = "verifyOtpCode_deleteMany"
    /\ emailOtp' = DeleteManyOtp(req[p].email)
    /\ accepted' = [accepted EXCEPT ![loc[p].issue] = @ + 1]
    /\ verifyOtpCode_return(p, TRUE)
    /\ UNCHANGED <<now, users, tasks, started, issueNo, issued, otpIssue, origin>>

\* user.controller.js signup: the lookup of an existing user.
signup_findFirst(p) ==
    /\ pc[p] = "signup_findFirst"
    /\ IF FindFirstExisting(loc[p].email, loc[p].googleId, req[p].mobileNumber) # {}
       THEN Answer(p, req[p], ApiErrorSend(400,
              "User already exists with the given email, mobile number, or Google ID."))
       ELSE Proceed(p, req[p], "signup_create", loc[p])
    /\ UNCHANGED <<now, store, started, history>>

\* The row prisma.user.create is asked to insert by signup.
SignupRow(p) ==
    [id |-> Len(users) + 1, name |-> loc[p].name, email |-> loc[p].email,
     googleId |-> loc[p].googleId, isGoogleSignUp |-> loc[p].isGoogleSignUp,
     isEmailVerified |-> loc[p].isEmailVerified,
     mobileNumber |-> req[p].mobileNumber,
     passwordHash |-> loc[p].passwordHash, role |-> SignupRole(req[p]),
     status |-> "default", refreshToken |-> NoToken]

\* user.controller.js signup: prisma.user.create.
signup_create(p) ==
    /\ pc[p] = "signup_create"
    /\ IF UniqueViolation(SignupRow(p))
       THEN /\ Answer(p, req[p], Thrown("Unique constraint failed"))
            /\ UNCHANGED <<users, origin>>
       ELSE /\ users' = Append(users, SignupRow(p))
            /\ origin' = Append(origin, [kind |-> "signup", token |-> NoToken])
            /\ Proceed(p, req[p], "signup_update",
                        [loc[p] EXCEPT !.user = <<SignupRow(p)>>])
    /\ UNCHANGED <<now, emailOtp, tasks, started, issueNo, issued, otpIssue, accepted>>

\* user.controller.js signup: the tokens, the update of refreshToken and the
\* response.
signup_update(p) ==
    /\ pc[p] = "signup_update"
    /\ LET newUser == loc[p].user[1]
           refreshToken == generateRefreshToken(newUser.id, newUser.email)
           accessToken == generateAccessToken(newUser.id, newUser.email,
                                              newUser.role)
       IN /\ SetRefreshToken(newUser.id, refreshToken)
          /\ Answer(p, req[p], ApiResponse(201, "Admin created successfully.",
                         <<[user |-> UserSafe(newUser),
                            accessToken |-> accessToken,
                            refreshCookie |-> refreshToken]>>))
    /\ UNCHANGED <<now, emailOtp, tasks, started, history>>

\* ---------------------------------------------------------------- login
LoginBase == [kind |-> "login", email |-> NoString, password |-> NoPassword,
              googleId |-> NoString]

\* The bodies of POST /login that are tried: none of the credentials, each
\* identity token, a token whose claim has the email of idtoken-a under
\* another subject id, and the password path.
LoginBodies ==
    {LoginBase}
    \cup {[LoginBase EXCEPT !.googleId = t] :
            t \in GoogleTokens \cup {"idtoken-a-other"}}
    \cup {[LoginBase EXCEPT !.email = "a@x.com", !.password = pw] :
            pw \in {StrongPassword, OtherPassword}}
    \cup {[LoginBase EXCEPT !.email = "b@x.com", !.password = StrongPassword],
          [LoginBase EXCEPT !.email = MalformedEmail,
                            !.password = StrongPassword]}

\* bcrypt.compare rejects when the hash is null; otherwise it tells whether
\* the hash is the password's.
BcryptCompareRejects(password, hashedPassword) == hashedPassword = NoHash
BcryptCompare(password, hashedPassword) == hashedPassword = BcryptHash(password)

\* user.controller.js login, up to its first await on the store.
login(p) ==
    /\ \E body \in LoginBodies :
         /\ Arrive(p)
         /\ IF ~(body.googleId # NoString
                 \/ (body.email # NoString /\ body.password # NoPassword))
            THEN Answer(p, body, ApiErrorSend(400,
                         "Google login or email + password is required."))
            ELSE IF body.googleId # NoString
            THEN IF GoogleRejects(body.googleId)
                 THEN Answer(p, body, Thrown("verifyIdToken rejected"))
                 ELSE LET googleUser == verifyGoogleIdToken(body.googleId) IN
                      IF ~googleUser.emailVerified
                      THEN Answer(p, body, ApiErrorSend(403,
                                   "Google account email not verified."))
                      ELSE Proceed(p, body, "login_findUnique",
                             [NoLoc EXCEPT !.email = googleUser.email,
                                           !.googleId = googleUser.googleId,
                                           !.isGoogleSignUp = TRUE])
            ELSE IF ~isEmail(body.email)
            THEN Answer(p, body, ApiErrorSend(400, "Invalid email format."))
            ELSE Proceed(p, body, "login_findUnique",
                          [NoLoc EXCEPT !.email = body.email])
    /\ UNCHANGED <<now, store, history>>

\* user.controller.js login: what the password path answers to the row found
\* (found is the set of ids findUnique matched).
LoginPasswordCheck(found, password) ==
    IF found = {} THEN ApiErrorSend(401, "Invalid credentials.")
    ELSE LET user == users[CHOOSE i \in found : TRUE] IN
         IF BcryptCompareRejects(password, user.passwordHash)
         THEN Thrown("data and hash arguments required")
         ELSE IF ~BcryptCompare(password, user.passwordHash)
         THEN ApiErrorSend(401, "Invalid credentials.")
         ELSE NoResp

\* user.controller.js login: findUnique by email and the checks on the row.
login_findUnique(p) ==
    /\ pc[p] = "login_findUnique"
    /\ LET found == FindByEmail(loc[p].email)
           failure ==
             IF loc[p].isGoogleSignUp
             THEN IF found = {} \/ ~users[CHOOSE i \in found : TRUE].isGoogleSignUp
                  THEN ApiErrorSend(404,
                         "Google account not registered. Please sign up first.")
                  ELSE NoResp
             ELSE LoginPasswordCheck(found, req[p].password)
       IN IF failure # NoResp
          THEN Answer(p, req[p], failure)
          ELSE Proceed(p, req[p], "login_update",
                        [loc[p] EXCEPT !.user = <<users[CHOOSE i \in found : TRUE]>>])
    /\ UNCHANGED <<now, store, started, history>>

\* user.controller.js login: the tokens, the update of refreshToken and the
\* response.
login_update(p) ==
    /\ pc[p] = "login_update"
    /\ LET user == loc[p].user[1]
           refreshToken == generateRefreshToken(user.id, user.email)
           accessToken == generateAccessToken(user.id, user.email, user.role)
       IN /\ SetRefreshToken(user.id, refreshToken)
          /\ Answer(p, req[p], ApiResponse(200, "Login successful.",
                         <<[user |-> UserSafe(user),
                            accessToken |-> accessToken,
                            refreshCookie |-> refreshToken]>>))
    /\ UNCHANGED <<now, emailOtp, tasks, started, history>>

\* ------------------------------------------------- POST /verify-otp
\* verifyOtp.controller.js verifyOtp, up to its first await.
verifyOtp(p) ==
    /\ Arrive(p)
    /\ Proceed(p, [kind |-> "verifyOtp", email |-> "a@x.com",
                   otp |-> SubmittedOtp],
               "verifyOtp_findUnique", NoLoc)
    /\ UNCHANGED <<now, store, history>>

\* verifyOtp.controller.js verifyOtp: findUnique and the two tests.
verifyOtp_findUnique(p) ==
    /\ pc[p] = "verifyOtp_findUnique"
    /\ LET record == emailOtp[req[p].email] IN
         IF record = NoRecord \/ record.otp # req[p].otp
         THEN Answer(p, req[p], ApiErrorSend(400, "Invalid OTP."))
         ELSE IF record.expiresAt < now
         THEN Answer(p, req[p], ApiErrorSend(400, "OTP has expired."))
         ELSE Proceed(p, req[p], "verifyOtp_delete",
                       [loc[p] EXCEPT !.record = record,
                                      !.issue = otpIssue[req[p].email]])
    /\ UNCHANGED <<now, store, started, history>>

\* verifyOtp.controller.js verifyOtp: prisma.emailOtp.delete, which throws
\* when the row is gone.
verifyOtp_delete(p) ==
    /\ pc[p] = "verifyOtp_delete"
    /\ IF emailOtp[req[p].email] = NoRecord
       THEN /\ Answer(p, req[p], Thrown("Record to delete does not exist."))
            /\ UNCHANGED emailOtp
       ELSE /\ emailOtp' = [emailOtp EXCEPT ![req[p].email] = NoRecord]
            /\ Proceed(p, req[p], "verifyOtp_update", loc[p])
    /\ UNCHANGED <<now, users, tasks, started, history>>

\* verifyOtp.controller.js verifyOtp: prisma.user.update by email, which
\* throws when no row has the email, and the response.
verifyOtp_update(p) ==
    /\ pc[p] = "verifyOtp_update"
    /\ LET found == FindByEmail(req[p].email) IN
         IF found = {}
         THEN /\ Answer(p, req[p], Thrown("Record to update not found."))
              /\ UNCHANGED <<users, accepted>>
         ELSE /\ users' = [users EXCEPT
                             ![CHOOSE i \in found : TRUE].isEmailVerified = TRUE]
              /\ accepted' = [accepted EXCEPT ![loc[p].issue] = @ + 1]
              /\ Answer(p, req[p], ApiResponse(200, "OTP verified successfully.", <<>>))
    /\ UNCHANGED <<now, emailOtp, tasks, started, issueNo, issued, otpIssue, origin>>

\* ------------------------------------------------------------- the gates
JsString(s) == [type |-> "string", s |-> s, n |-> 0]
JsNumber(n) == [type |-> "number", s |-> NoString, n |-> n]

\* ApiError.js: new ApiError(statusCode, message)
ApiError(statusCode, message) == [statusCode |-> statusCode, message |-> message]
NoError == [statusCode |-> JsNumber(0), message |-> JsString(NoString)]

\* The access tokens clients hold: signup, login and memberSignup hand out
\* the access token of the row they answer with.
ClientTokens ==
    {NoToken}
    \cup {generateAccessToken(users[i].id, users[i].email, users[i].role) :
            i \in UserIds}

\* The tokens a request can carry in its cookie or Authorization header:
\* none, an access token, an access token that has expired, or the refresh
\* token of the same login.
PresentedTokens ==
    ClientTokens
    \cup {Outlived(generateAccessToken(users[i].id, users[i].email, users[i].role)) :
            i \in UserIds}
    \cup {generateRefreshToken(users[i].id, users[i].email) : i \in UserIds}

\* An authenticateUser that accepts a token whatever secret signed it.
authenticateUser_anySecret(accessToken) ==
    IF accessToken = NoToken
    THEN ApiError(JsString("Unauthorized access."), JsNumber(401))
    ELSE IF accessToken.expired
    THEN ApiError(JsString("Access token has expired."), JsNumber(401))
    ELSE NoError

\* auth.middleware.js authenticateUser: the error it passes to next, NoError
\* when it attaches req.user and calls next(). The ApiError it builds gets
\* the message where the constructor expects the status code.
authenticateUser(accessToken) ==
    IF accessToken = NoToken
    THEN ApiError(JsString("Unauthorized access."), JsNumber(401))
    ELSE IF jwtVerify(accessToken, "ACCESS_TOKEN_SECRET") = "TokenExpiredError"
    THEN ApiError(JsString("Access token has expired."), JsNumber(401))
    ELSE IF jwtVerify(accessToken, "ACCESS_TOKEN_SECRET") # "decoded"
    THEN ApiError(JsString("Unauthorized access."), JsNumber(401))
    ELSE NoError

\* auth.middleware.js authenticateUser: req.user, the decoded payload.
ResolvedUser(accessToken) ==
    [id |-> accessToken.id, email |-> accessToken.email,
     role |-> accessToken.role]

\* authorizeRoles.js authorizeRolesMiddleware(...allowedRoles)
authorizeRolesMiddleware(allowedRoles, user) ==
    IF user.role \notin allowedRoles
    THEN ApiErrorSend(403, "Access denied.")
    ELSE NoResp

\* user.routes.js: the middlewares in front of each handler.
RouteMiddlewares(route) ==
    CASE route = "/add-team-member" -> <<>>
      [] route = "/reset-password" -> <<"authMiddleware">>
      [] route = "/get-all-clients" ->
           <<"authMiddleware", "authorizeRolesMiddleware">>
      [] OTHER -> <<>>

\* An error handed to next(err) leaves the route.
Forwarded(error) == [status |-> -2, message |-> NoString, data |-> <<error>>]

\* app.js installs no error middleware, so Express's own handler answers an
\* error: with err.statusCode when that is a number from 400 to 599, with
\* 500 otherwise.
ExpressErrorStatus(error) ==
    IF error.statusCode.type = "number"
       /\ error.statusCode.n >= 400 /\ error.statusCode.n < 600
    THEN error.statusCode.n
    ELSE 500

\* The HTTP status the client sees for an answer.
HttpStatus(resp) ==
    IF resp.status = -2 THEN ExpressErrorStatus(resp.data[1])
    ELSE IF resp.status = -1 THEN 500
    ELSE resp.status

\* What the middlewares of a route answer to a request carrying accessToken:
\* NoResp when the handler is reached.
RECURSIVE RunMiddlewares(_, _)
RunMiddlewares(middlewares, accessToken) ==
    IF middlewares = <<>> THEN NoResp
    ELSE IF Head(middlewares) = "authMiddleware"
    THEN IF authenticateUser(accessToken) # NoError
         THEN Forwarded(authenticateUser(accessToken))
         ELSE RunMiddlewares(Tail(middlewares), accessToken)
    ELSE IF authorizeRolesMiddleware({"admin"}, ResolvedUser(accessToken)) # NoResp
         THEN authorizeRolesMiddleware({"admin"}, ResolvedUser(accessToken))
         ELSE RunMiddlewares(Tail(middlewares), accessToken)

\* --------------------------------------------------------- memberSignup
\* A list of allowed roles that has admin in it.
ALLOWED_ROLES_withAdmin == {"user", "member", "admin"}

ALLOWED_ROLES == {"user", "member"}
ALLOWED_STATUSES == {"active", "inactive"}
PermissionNames == {"view_dashboard", "manage_clients", "manage_projects",
                    "manage_invoices"}

\* String.prototype.toLowerCase().trim() on the strings that occur.
LowerTrim(s) ==
    CASE s = " Member " -> "member"
      [] s = "ADMIN" -> "admin"
      [] s = "Inactive" -> "inactive"
      [] s = "B@X.COM" -> "b@x.com"
      [] OTHER -> s

MemberBase ==
    [kind |-> "memberSignup", name |-> "Bea", email |-> "b@x.com",
     password |-> StrongPassword, role |-> "member", status |-> "active",
     permissions |-> <<>>, token |-> NoToken]

MemberBodies ==
    {MemberBase}
    \cup {[MemberBase EXCEPT !.role = r] : r \in {" Member ", "ADMIN"}}
    \cup {[MemberBase EXCEPT !.status = st] : st \in {"Inactive", "deleted"}}
    \cup {[MemberBase EXCEPT !.email = "B@X.COM", !.role = "user"],
          [MemberBase EXCEPT !.password = WeakPassword],
          [MemberBase EXCEPT !.name = NoString],
          [MemberBase EXCEPT !.permissions = <<"manage_clients">>],
          [MemberBase EXCEPT !.permissions = <<"everything">>]}

\* prisma.permission.findMany({where: {name: {in: permissions}}})
FindPermissions(permissions) ==
    {n \in PermissionNames : \E i \in 1..Len(permissions) : permissions[i] = n}

\* teams.controller.js memberSignup: the validation of the normalised body,
\* NoResp when it passes.
MemberValidation(name, email, password, role, status, permissions) ==
    IF name = NoString \/ email = NoString \/ password = NoPassword
       \/ role = NoString \/ status = NoString
    THEN ApiErrorSend(400, "All fields are required.")
    ELSE IF ~isEmail(email)
    THEN ApiErrorSend(400, "Invalid email format.")
    ELSE IF ~isStrongPassword(password)
    THEN ApiErrorSend(400, "Password must be strong.")
    ELSE IF role \notin ALLOWED_ROLES
    THEN ApiErrorSend(400, "Invalid role specified.")
    ELSE IF status \notin ALLOWED_STATUSES
    THEN ApiErrorSend(400, "Invalid status specified.")
    ELSE IF role = "member"
            /\ Cardinality(FindPermissions(permissions)) # Len(permissions)
    THEN ApiErrorSend(400, "Some permissions are invalid.")
    ELSE NoResp

\* POST /add-team-member: the middlewares of the route, then
\* teams.controller.js memberSignup up to its first await on table user.
memberSignup(p) ==
    /\ \E body \in MemberBodies, accessToken \in ClientTokens :
         LET email == LowerTrim(body.email)
             role == LowerTrim(body.role)
             status == LowerTrim(body.status)
             gate == RunMiddlewares(RouteMiddlewares("/add-team-member"),
                                    accessToken)
             invalid == MemberValidation(body.name, email, body.password,
                                         role, status, body.permissions)
         IN /\ Arrive(p)
            /\ IF gate # NoResp THEN Answer(p, [body EXCEPT !.token = accessToken], gate)
               ELSE IF invalid # NoResp THEN Answer(p, [body EXCEPT !.token = accessToken], invalid)
               ELSE Proceed(p, [body EXCEPT !.token = accessToken], "memberSignup_findUnique",
                             [NoLoc EXCEPT !.email = email,
                                           !.name = body.name,
                                           !.role = role,
                                           !.status = status])
    /\ UNCHANGED <<now, store, history>>

\* teams.controller.js memberSignup: the lookup of an existing user.
memberSignup_findUnique(p) ==
    /\ pc[p] = "memberSignup_findUnique"
    /\ IF FindByEmail(loc[p].email) # {}
       THEN Answer(p, req[p], ApiErrorSend(400, "User already exists with this email."))
       ELSE Proceed(p, req[p], "memberSignup_create", loc[p])
    /\ UNCHANGED <<now, store, started, history>>

\* The row prisma.user.create is asked to insert by memberSignup.
MemberRow(p) ==
    [id |-> Len(users) + 1, name |-> loc[p].name, email |-> loc[p].email,
     googleId |-> NoString, isGoogleSignUp |-> FALSE,
     isEmailVerified |-> TRUE, mobileNumber |-> NoString,
     passwordHash |-> BcryptHash(req[p].password), role |-> loc[p].role,
     status |-> loc[p].status, refreshToken |-> NoToken]

\* teams.controller.js memberSignup: prisma.user.create.
memberSignup_create(p) ==
    /\ pc[p] = "memberSignup_create"
    /\ IF UniqueViolation(MemberRow(p))
       THEN /\ Answer(p, req[p], Thrown("Unique constraint failed"))
            /\ UNCHANGED <<users, origin>>
       ELSE /\ users' = Append(users, MemberRow(p))
            /\ origin' = Append(origin, [kind |-> "memberSignup",
                                         token |-> req[p].token])
            /\ Proceed(p, req[p], "memberSignup_update",
                        [loc[p] EXCEPT !.user = <<MemberRow(p)>>])
    /\ UNCHANGED <<now, emailOtp, tasks, started, issueNo, issued, otpIssue, accepted>>

\* teams.controller.js memberSignup: the tokens, the update of refreshToken
\* and the response.
memberSignup_update(p) ==
    /\ pc[p] = "memberSignup_update"
    /\ LET newUser == loc[p].user[1]
           refreshToken == generateRefreshToken(newUser.id, newUser.email)
           accessToken == generateAccessToken(newUser.id, newUser.email,
                                              newUser.role)
       IN /\ SetRefreshToken(newUser.id, refreshToken)
          /\ Answer(p, req[p], ApiResponse(201,
                         newUser.role \o " created successfully.",
                         <<[user |-> UserSafe(newUser),
                            accessToken |-> accessToken,
                            refreshCookie |-> refreshToken]>>))
    /\ UNCHANGED <<now, emailOtp, tasks, started, history>>

\* -------------------------------------------------------- resetPassword
ResetBase == [kind |-> "resetPassword", currentPassword |-> StrongPassword,
              newPassword |-> OtherPassword, token |-> NoToken]

\* The bodies of POST /reset-password that are tried: the right and a wrong
\* current password, a new password equal to the current one, a short new
\* password, and no current password.
ResetBodies ==
    {ResetBase,
     [ResetBase EXCEPT !.currentPassword = OtherPassword,
                       !.newPassword = StrongPassword],
     [ResetBase EXCEPT !.newPassword = StrongPassword],
     [ResetBase EXCEPT !.newPassword = WeakPassword],
     [ResetBase EXCEPT !.currentPassword = NoPassword]}

\* POST /reset-password: the authentication gate, then
\* user.controller.js resetPassword up to its first await.
resetPassword(p) ==
    /\ \E body \in ResetBodies, accessToken \in ClientTokens :
         LET r == [body EXCEPT !.token = accessToken]
             gate == RunMiddlewares(RouteMiddlewares("/reset-password"),
                                    accessToken)
         IN /\ Arrive(p)
            /\ IF gate # NoResp THEN Answer(p, r, gate)
               ELSE IF body.currentPassword = NoPassword
                       \/ body.newPassword = NoPassword
               THEN Answer(p, r, ApiErrorSend(400,
                              "Current and new passwords are required."))
               ELSE Proceed(p, r, "resetPassword_findUnique", NoLoc)
    /\ UNCHANGED <<now, store, history>>

\* user.controller.js resetPassword: what it answers to the row found, NoResp
\* when the password may be changed.
ResetPasswordCheck(user, currentPassword, newPassword) ==
    IF BcryptCompareRejects(currentPassword, user.passwordHash)
    THEN Thrown("data and hash arguments required")
    ELSE IF ~BcryptCompare(currentPassword, user.passwordHash)
    THEN ApiErrorSend(401, "Current password is incorrect.")
    ELSE IF newPassword = currentPassword
    THEN ApiErrorSend(400, "New password must be different.")
    ELSE IF ~(Len(newPassword) >= MinLength)
    THEN ApiErrorSend(400, "New password is too weak.")
    ELSE NoResp

\* user.controller.js resetPassword: findUnique by req.user.id and the
\* checks on the passwords.
resetPassword_findUnique(p) ==
    /\ pc[p] = "resetPassword_findUnique"
    /\ LET userId == ResolvedUser(req[p].token).id IN
         IF userId \notin UserIds
         THEN Answer(p, req[p], ApiErrorSend(404, "User not found."))
         ELSE LET failure == ResetPasswordCheck(users[userId],
                                req[p].currentPassword, req[p].newPassword)
              IN IF failure # NoResp
                 THEN Answer(p, req[p], failure)
                 ELSE Proceed(p, req[p], "resetPassword_update",
                        [NoLoc EXCEPT !.user = <<users[userId]>>,
                                      !.passwordHash =
                                          BcryptHash(req[p].newPassword)])
    /\ UNCHANGED <<now, store, started, history>>

\* user.controller.js resetPassword: prisma.user.update of passwordHash and
\* the response.
resetPassword_update(p) ==
    /\ pc[p] = "resetPassword_update"
    /\ users' = [users EXCEPT ![loc[p].user[1].id].passwordHash =
                                   loc[p].passwordHash]
    /\ Answer(p, req[p], ApiResponse(200, "Password changed successfully.", <<>>))
    /\ UNCHANGED <<now, emailOtp, tasks, started, history>>

\* --------------------------------------------------------- updateMember
UpdateBase == [kind |-> "updateMember", id |-> 0, name |-> NoString,
               status |-> NoString, permissions |-> <<>>]

\* The bodies of PUT /update-member/:id that are tried.
UpdateBodies ==
    {UpdateBase,
     [UpdateBase EXCEPT !.name = "Zed", !.status = "inactive"],
     [UpdateBase EXCEPT !.status = "deleted"],
     [UpdateBase EXCEPT !.permissions = <<"everything">>]}

\* PUT /update-member/:id: teams.controller.js updateMember, its lookup of
\* the member and its checks.
updateMember(p) ==
    /\ \E body \in UpdateBodies, id \in UserIds \cup {0} :
         LET r == [body EXCEPT !.id = id] IN
         /\ Arrive(p)
         /\ IF id \notin UserIds \/ users[id].role # "member"
            THEN Answer(p, r, ApiErrorSend(404, "Member not found."))
            ELSE IF body.status # NoString /\ body.status \notin ALLOWED_STATUSES
            THEN Answer(p, r, ApiErrorSend(400, "Invalid status specified."))
            ELSE IF Cardinality(FindPermissions(body.permissions))
                      # Len(body.permissions)
            THEN Answer(p, r, ApiErrorSend(400, "Some permissions are invalid."))
            ELSE Proceed(p, r, "updateMember_update", NoLoc)
    /\ UNCHANGED <<now, store, history>>

\* teams.controller.js updateMember: prisma.user.update of name and status;
\* a field the body leaves out is left as it is.
updateMember_update(p) ==
    /\ pc[p] = "updateMember_update"
    /\ LET row == users[req[p].id] IN
         users' = [users EXCEPT ![req[p].id] =
                     [row EXCEPT
                        !.name = IF req[p].name # NoString THEN req[p].name
                                 ELSE row.name,
                        !.status = IF req[p].status # NoString
                                   THEN req[p].status ELSE row.status]]
    /\ Proceed(p, req[p], "updateMember_findUnique", loc[p])
    /\ UNCHANGED <<now, emailOtp, tasks, started, history>>

\* teams.controller.js updateMember: the row read back and the response.
updateMember_findUnique(p) ==
    /\ pc[p] = "updateMember_findUnique"
    /\ Answer(p, req[p], ApiResponse(200, "Member updated successfully.",
                   <<UserSafe(users[req[p].id])>>))
    /\ UNCHANGED <<now, store, started, history>>

\* ----------------------------------------------------------- allClients
\* GET /get-all-clients: the two gates of the route, then
\* clients.controller.js allClients. No handler modelled here writes table
\* client, so findMany returns no rows.
allClients(p) ==
    /\ \E accessToken \in PresentedTokens :
         LET r == [kind |-> "allClients", token |-> accessToken]
             gate == RunMiddlewares(RouteMiddlewares("/get-all-clients"),
                                    accessToken)
         IN /\ Arrive(p)
            /\ IF gate # NoResp THEN Answer(p, r, gate)
               ELSE Answer(p, r, ApiResponse(200,
                              "Clients fetched successfully.", <<>>))
    /\ UNCHANGED <<now, store, history>>

\* ------------------------------------------------------------ taskboard
\* The rows of table project: no handler modelled here writes it.
Projects == {"project-1"}

\* The task routes: the middlewares in front of each handler.
TaskRouteMiddlewares(route) ==
    CASE route = "/create-task" -> <<"authMiddleware">>
      [] route = "/get-all-tasks" -> <<"authMiddleware">>
      [] OTHER -> <<>>

MinTitleLength == 3
MaxTitleLength == 100
TASK_ALLOWED_STATUSES == {"todo", "in_progress", "done", "blocked"}
ALLOWED_PRIORITIES == {"low", "medium", "high", "critical"}

TaskBase ==
    [kind |-> "createTask", project |-> "project-1", assignee |-> 0,
     title |-> "Design homepage", status |-> "todo", priority |-> "low",
     token |-> NoToken]

\* The bodies of POST /create-task that are tried: a stored and an unknown
\* project, each stored user or nobody as assignee, and a status that is not
\* allowed.
TaskBodies ==
    {[TaskBase EXCEPT !.project = pr, !.assignee = id] :
        pr \in {"project-1", "project-0"}, id \in UserIds \cup {0}}
    \cup {[TaskBase EXCEPT !.status = "later", !.assignee = id] : id \in UserIds}

\* Taskboard.controller.js createTask: the validation of the body, NoResp
\* when it passes. The project ids and user ids that occur are well-formed
\* UUIDs, and the bodies carry no dueDate.
TaskValidation(body) ==
    IF body.project = NoString \/ body.title = NoString
       \/ body.status = NoString \/ body.priority = NoString
       \/ body.assignee = 0
    THEN ApiErrorSend(400, "Required fields are missing.")
    ELSE IF Len(body.title) < MinTitleLength \/ Len(body.title) > MaxTitleLength
    THEN ApiErrorSend(400, "Title must be between 3 and 100 characters.")
    ELSE IF body.status \notin TASK_ALLOWED_STATUSES
    THEN ApiErrorSend(400, "Invalid status. Allowed: todo, in_progress, done, blocked")
    ELSE IF body.priority \notin ALLOWED_PRIORITIES
    THEN ApiErrorSend(400, "Invalid priority. Allowed: low, medium, high, critical")
    ELSE NoResp

\* POST /create-task: the authentication gate, then
\* Taskboard.controller.js createTask up to its first await.
createTask(p) ==
    /\ \E body \in TaskBodies, accessToken \in ClientTokens :
         LET r == [body EXCEPT !.token = accessToken]
             gate == RunMiddlewares(TaskRouteMiddlewares("/create-task"),
                                    accessToken)
             invalid == TaskValidation(body)
         IN /\ Arrive(p)
            /\ IF gate # NoResp THEN Answer(p, r, gate)
               ELSE IF invalid # NoResp THEN Answer(p, r, invalid)
               ELSE Proceed(p, r, "createTask_findUnique", NoLoc)
    /\ UNCHANGED <<now, store, history>>

\* Taskboard.controller.js createTask: the lookups of the project and of
\* the assignee.
createTask_findUnique(p) ==
    /\ pc[p] = "createTask_findUnique"
    /\ IF req[p].project \notin Projects
       THEN Answer(p, req[p], ApiErrorSend(404, "Project not found."))
       ELSE IF req[p].assignee \notin UserIds
       THEN Answer(p, req[p], ApiErrorSend(404, "Assigned user not found."))
       ELSE IF users[req[p].assignee].role # "member"
       THEN Answer(p, req[p], ApiErrorSend(400,
              "Task can only be assigned to users with role 'member'."))
       ELSE Proceed(p, req[p], "createTask_create", loc[p])
    /\ UNCHANGED <<now, store, started, history>>

\* The row prisma.task.create is asked to insert.
TaskRow(p) ==
    [id |-> Len(tasks) + 1, projectId |-> req[p].project,
     userId |-> req[p].assignee, title |-> req[p].title,
     status |-> req[p].status, priority |-> req[p].priority]

\* Taskboard.controller.js createTask: prisma.task.create and the response.
createTask_create(p) ==
    /\ pc[p] = "createTask_create"
    /\ tasks' = Append(tasks, TaskRow(p))
    /\ Answer(p, req[p], ApiResponse(201, "Task created successfully.",
                   <<TaskRow(p)>>))
    /\ UNCHANGED <<now, users, emailOtp, started, history>>

\* prisma.task.findMany({include: {user: true, project: true}}): each task
\* with the whole row of its user and of its project.
TasksWithUser ==
    [i \in 1..Len(tasks) |->
        [id |-> tasks[i].id, projectId |-> tasks[i].projectId,
         userId |-> tasks[i].userId, title |-> tasks[i].title,
         status |-> tasks[i].status, priority |-> tasks[i].priority,
         user |-> users[tasks[i].userId],
         project |-> [id |-> tasks[i].projectId]]]

\* GET /get-all-tasks: the authentication gate, then
\* Taskboard.controller.js getAllTasks.
getAllTasks(p) ==
    /\ \E accessToken \in ClientTokens :
         LET r == [kind |-> "getAllTasks", token |-> accessToken]
             gate == RunMiddlewares(TaskRouteMiddlewares("/get-all-tasks"),
                                    accessToken)
         IN /\ Arrive(p)
            /\ IF gate # NoResp THEN Answer(p, r, gate)
               ELSE Answer(p, r, ApiResponse(200, "Tasks fetched successfully.",
                              <<TasksWithUser>>))
    /\ UNCHANGED <<now, store, history>>

\* ------------------------------------------------------- specifications
\* One step of the request process p handles.
Handle(p) ==
    \/ resendOtp(p)
    \/ sendOtp_upsert(p)
    \/ sendOtp_sendMail(p)
    \/ sendOtp_return(p)
    \/ signup(p)
    \/ verifyOtpCode_findUnique(p)
    \/ verifyOtpCode_deleteMany(p)
    \/ signup_findFirst(p)
    \/ signup_create(p)
    \/ signup_update(p)
    \/ login(p)
    \/ login_findUnique(p)
    \/ login_update(p)
    \/ verifyOtp(p)
    \/ verifyOtp_findUnique(p)
    \/ verifyOtp_delete(p)
    \/ verifyOtp_update(p)
    \/ memberSignup(p)
    \/ memberSignup_findUnique(p)
    \/ memberSignup_create(p)
    \/ memberSignup_update(p)
    \/ allClients(p)
    \/ forgotPassword(p)
    \/ forgotPassword_findUnique(p)
    \/ forgotPassword_update(p)
    \/ resetPassword(p)
    \/ resetPassword_findUnique(p)
    \/ resetPassword_update(p)
    \/ updateMember(p)
    \/ updateMember_update(p)
    \/ updateMember_findUnique(p)
    \/ createTask(p)
    \/ createTask_findUnique(p)
    \/ createTask_create(p)
    \/ getAllTasks(p)

\* One step of a request that races with another: the handlers that read and
\* then write the same rows.
Race(p) ==
    \/ resendOtp(p)
    \/ sendOtp_upsert(p)
    \/ sendOtp_sendMail(p)
    \/ sendOtp_return(p)
    \/ signup(p)
    \/ verifyOtpCode_findUnique(p)
    \/ verifyOtpCode_deleteMany(p)
    \/ signup_findFirst(p)
    \/ signup_create(p)
    \/ signup_update(p)
    \/ verifyOtp(p)
    \/ verifyOtp_findUnique(p)
    \/ verifyOtp_delete(p)
    \/ verifyOtp_update(p)

\* Requests arrive one after the other: each is answered before the next
\* begins, so one process handles them all.
Next == Tick \/ Handle(1)
Spec == Init /\ [][Next]_vars

\* Requests overlap: the event loop may run any request's next step.
RaceNext == Tick \/ \E p \in Procs : Race(p)
RaceSpec == Init /\ [][RaceNext]_vars
\* ------------------------------------------------------------------ claims
OtpSentToSignup == ApiResponse(200, "OTP sent to your email.", <<>>)
InvalidOrExpiredOtp == ApiErrorSend(400, "Invalid or expired OTP.")
Conflict ==
    ApiErrorSend(400,
      "User already exists with the given email, mobile number, or Google ID.")
InvalidCredentials == ApiErrorSend(401, "Invalid credentials.")

\* C1: two verifications of the same live code that overlap: exactly one
\* reports success, so no issued code ever satisfies two verifications.
C1_ConcurrentVerifyExactlyOne ==
    \A i \in 1..MaxIssues : accepted[i] <= 1

\* C2: in a history of requests handled one after the other, the first
\* verify of the issued code before expiry goes on to delete the row, the
\* delete removes it, every later verify without a new issue is refused, and
\* so each issued code is accepted at most once.
C2_IssuedCodeAcceptedOnce ==
    [][\A p \in Procs :
         LET e == req[p].email
             i == otpIssue[e]
         IN /\ (pc[p] = "verifyOtpCode_findUnique" /\ pc'[p] # pc[p]) =>
                 /\ (/\ i > 0 /\ accepted[i] = 0
                     /\ emailOtp[e].otp = req[p].otp
                     /\ now < emailOtp[e].expiresAt)
                       => pc'[p] = "verifyOtpCode_deleteMany"
                 /\ (i > 0 /\ accepted[i] >= 1)
                       => (pc'[p] = "idle" /\ last'.resp = InvalidOrExpiredOtp)
            /\ (pc[p] = "verifyOtpCode_deleteMany" /\ pc'[p] # pc[p]) =>
                 /\ emailOtp'[e] = NoRecord
                 /\ accepted'[loc[p].issue] = 1]_vars

C2_Witness ==
    /\ issueNo = 1
    /\ accepted[1] = 1
    /\ now = 0
    /\ last.req.kind = "signup"
    /\ last.resp = InvalidOrExpiredOtp

\* C3: a code is accepted only while now < expiry: no verify made at or after
\* the expiry instant passes the test on the row.
C3_AcceptedOnlyBeforeExpiry ==
    [][\A p \in Procs :
         (/\ pc[p] \in {"verifyOtpCode_findUnique", "verifyOtp_findUnique"}
          /\ pc'[p] \in {"verifyOtpCode_deleteMany", "verifyOtp_delete"})
           => now < emailOtp[req[p].email].expiresAt]_vars

\* C4: of two overlapping signups for the same email or subject id at most
\* one creates the Identity, the store never holds the email or the subject
\* id twice, and the other signup is answered with Conflict (no other
\* failure reaches the caller).
NoDuplicateIdentity ==
    \A i, j \in UserIds :
        i # j => /\ users[i].email # users[j].email
                 /\ (users[i].googleId # NoString
                       => users[i].googleId # users[j].googleId)
C4_ConcurrentSignupOtherGetsConflict ==
    /\ NoDuplicateIdentity
    /\ (last.req.kind = "signup" /\ last.resp.status = -1)
         => last.resp.message # "Unique constraint failed"

\* The email a signup request is for: the claim's on the third-party path,
\* the body's on the password path.
SignupEmail(r) ==
    IF r.googleId # NoString THEN verifyGoogleIdToken(r.googleId).email
    ELSE r.email

\* A signup request that passes the checks on its own fields.
WellFormedSignup(r) ==
    /\ r.kind = "signup"
    /\ IF r.googleId # NoString
       THEN /\ ~GoogleRejects(r.googleId)
            /\ verifyGoogleIdToken(r.googleId).emailVerified
       ELSE /\ isEmail(r.email)
            /\ r.password # NoPassword
            /\ isStrongPassword(r.password)
    /\ r.mobileNumber # NoString => isMobilePhone(r.mobileNumber)

\* The step of process p that answers its request.
Answered(p) ==
    /\ pc'[p] = "idle"
    /\ pc[p] # "idle" \/ (started' # started /\ pc' = pc)

\* C5: a signup whose email already belongs to a stored Identity creates
\* nothing and is answered with Conflict, on either path and with or without
\* a one-time code. (The answer of signup_update is that of a request that
\* has itself just created the row.)
C5_SignupForStoredEmailIsConflict ==
    [][\A p \in Procs :
         /\ (pc[p] = "signup_create" /\ FindByEmail(loc[p].email) # {})
               => users' = users
         /\ (/\ Answered(p)
             /\ pc[p] # "signup_update"
             /\ WellFormedSignup(last'.req)
             /\ FindByEmail(SignupEmail(last'.req)) # {})
               => last'.resp = Conflict]_vars

WeakPasswordSignup(r) ==
    /\ r.kind = "signup"
    /\ r.googleId = NoString
    /\ r.email # NoString
    /\ r.password # NoPassword
    /\ ~isStrongPassword(r.password)

\* C6: a password-path signup with a weak password mutates nothing in the
\* store and is answered with BadRequest, with or without a one-time code.
C6_WeakPasswordMutatesNothing ==
    [][\A p \in Procs :
         (WeakPasswordSignup(req[p]) /\ pc'[p] # pc[p])
           => /\ store' = store
              /\ pc'[p] = "idle" => last'.resp.status = 400]_vars

\* C7: every step of a password-path signup that carries no code leaves the
\* table of users as it is; the upsert stores a code for the email that
\* expires in ten minutes; and the request is answered "code sent", with no
\* token, unless the mail transport rejected the message.
C7_SignupWithoutCodeOnlyIssues ==
    [][\A p \in Procs :
         (/\ req[p].kind = "signup" /\ req[p].googleId = NoString
          /\ req[p].otp = NoString /\ pc'[p] # pc[p])
           => /\ users' = users
              /\ origin' = origin
              /\ pc[p] = "sendOtp_upsert" =>
                   /\ emailOtp'[req[p].email].otp \in OtpSpace
                   /\ emailOtp'[req[p].email].expiresAt = now + 10 * 60 * 1000
              /\ pc'[p] = "idle" =>
                   /\ pc[p] = "sendOtp_return"
                   /\ last'.resp \in {OtpSentToSignup, Thrown("sendMail rejected")}]_vars

C7_Witness ==
    /\ last.req.kind = "signup"
    /\ last.req.googleId = NoString
    /\ last.req.otp = NoString
    /\ last.resp = OtpSentToSignup
    /\ emailOtp[last.req.email] # NoRecord
    /\ users = <<>>

\* C8 as stated: no Identity created by self-service signup is an admin.
C8_SignupNeverAdmin ==
    \A i \in UserIds : origin[i].kind = "signup" => users[i].role # "admin"

\* C8 as amended: every Identity created by self-service signup, on either
\* path, has the fixed role admin, whatever the request body says.
C8_SignupAlwaysAdmin ==
    \A i \in UserIds : origin[i].kind = "signup" => users[i].role = "admin"

C8_Witness ==
    \E i \in UserIds :
        /\ origin[i].kind = "signup"
        /\ users[i].name = "Mallory"
        /\ users[i].role = "admin"

\* C9: an Identity is created through POST /add-team-member only by a request
\* whose access token passed the authentication gate and carries role admin.
C9_MemberCreatedOnlyByAdmin ==
    \A i \in UserIds :
        origin[i].kind = "memberSignup"
          => /\ authenticateUser(origin[i].token) = NoError
             /\ origin[i].token.role = "admin"

\* C10: a password login with a well-formed email that does not authenticate
\* is always answered 401 "Invalid credentials.", whatever the stored row.
C10_LoginFailureIsUniform ==
    (/\ last.req.kind = "login"
     /\ last.req.googleId = NoString
     /\ isEmail(last.req.email)
     /\ last.req.password # NoPassword
     /\ last.resp.status # 200)
      => last.resp = InvalidCredentials

\* C11: on a route behind both gates the handler runs only for a valid,
\* unexpired access token whose role is allowed; a request without a token
\* is answered 401 and one with a valid token of another role 403.
C11_GuardedRouteAnswers ==
    last.req.kind = "allClients" =>
        LET token == last.req.token IN
        /\ last.resp.status = 200
             => /\ jwtVerify(token, "ACCESS_TOKEN_SECRET") = "decoded"
                /\ token.role \in {"admin"}
        /\ token = NoToken => HttpStatus(last.resp) = 401
        /\ (jwtVerify(token, "ACCESS_TOKEN_SECRET") = "decoded"
              /\ token.role \notin {"admin"})
             => HttpStatus(last.resp) = 403

\* C12: the access token minted for any stored row is accepted by the
\* authentication gate and resolves to that row's id, email and role; the
\* refresh token minted for it is rejected; and the guarded handler answers
\* no request that presents a refresh token.
C12_AccessTokenRoundTrip ==
    /\ \A i \in UserIds :
          LET access == generateAccessToken(users[i].id, users[i].email,
                                            users[i].role)
              refresh == generateRefreshToken(users[i].id, users[i].email)
          IN /\ authenticateUser(access) = NoError
             /\ ResolvedUser(access) = [id |-> users[i].id,
                                        email |-> users[i].email,
                                        role |-> users[i].role]
             /\ authenticateUser(refresh) # NoError
    /\ (last.req.kind = "allClients"
         /\ last.req.token.secret # "ACCESS_TOKEN_SECRET")
          => last.resp.status = -2

C12_Witness ==
    /\ last.req.kind = "allClients"
    /\ last.req.token.secret = "REFRESH_TOKEN_SECRET"
    /\ last.req.token.id \in UserIds
    /\ last.resp = Forwarded(authenticateUser(last.req.token))

\* C13: every stored Identity has a way to authenticate: a password hash or
\* a third-party subject id.
C13_IdentityHasAuthPath ==
    \A i \in UserIds :
        users[i].passwordHash # NoHash \/ users[i].googleId # NoString

C13_Witness ==
    /\ \E i \in UserIds :
          users[i].passwordHash = NoHash /\ users[i].googleId # NoString
    /\ \E i \in UserIds :
          users[i].passwordHash # NoHash /\ users[i].googleId = NoString
    /\ last.req.kind = "updateMember"
    /\ last.resp.status = 200

\* C14: emails are stored in lower case, and no two stored Identities have
\* emails that are equal up to letter case.
C14_EmailsNormalizedAndUnique ==
    /\ \A i \in UserIds : users[i].email = LowerTrim(users[i].email)
    /\ \A i, j \in UserIds :
          i # j => LowerTrim(users[i].email) # LowerTrim(users[j].email)

WeakPasswordReply ==
    ApiErrorSend(400,
      "Password must be at least 8 characters long and include letters, numbers, and symbols.")

\* A forgotPassword request that supplies both a code and a new password.
ForgotReset(r) ==
    /\ r.kind = "forgotPassword"
    /\ r.otp # NoString
    /\ r.newPassword # NoPassword

\* C15 as stated: the code is verified first, so a reset for a known user
\* always goes to verifyOtpCode, and a weak password is refused only after
\* the code has been consumed.
C15_VerifyThenStrength ==
    [][\A p \in Procs :
         (ForgotReset(req[p]) /\ pc'[p] # pc[p]) =>
            /\ (pc[p] = "forgotPassword_findUnique"
                 /\ FindByEmail(req[p].email) # {})
                  => pc'[p] = "verifyOtpCode_findUnique"
            /\ (Answered(p) /\ last'.resp = WeakPasswordReply)
                  => pc[p] = "verifyOtpCode_deleteMany"]_vars

\* C15 as amended: the strength check comes first and a weak password is
\* refused with the store untouched; then the code is verified and
\* consumed; then the hash is updated, and the stored hash changes only in
\* that last step, to the hash of a strong password, after the code was
\* accepted.
C15_StrengthThenVerify ==
    [][\A p \in Procs :
         (ForgotReset(req[p]) /\ pc'[p] # pc[p]) =>
            /\ (pc[p] = "forgotPassword_findUnique"
                 /\ FindByEmail(req[p].email) # {})
                  => IF isStrongPassword(req[p].newPassword)
                     THEN pc'[p] = "verifyOtpCode_findUnique"
                     ELSE /\ Answered(p)
                          /\ last'.resp = WeakPasswordReply
                          /\ store' = store
            /\ pc[p] = "verifyOtpCode_findUnique"
                  => /\ isStrongPassword(req[p].newPassword)
                     /\ store' = store
            /\ pc[p] = "verifyOtpCode_deleteMany"
                  => /\ emailOtp'[req[p].email] = NoRecord
                     /\ users' = users
                     /\ pc'[p] = "forgotPassword_update"
            /\ users' # users
                  => /\ pc[p] = "forgotPassword_update"
                     /\ isStrongPassword(req[p].newPassword)
                     /\ loc[p].record.otp = req[p].otp
                     /\ \A i \in UserIds :
                          users'[i] # users[i] =>
                            /\ users[i].email = req[p].email
                            /\ users'[i] = [users[i] EXCEPT !.passwordHash =
                                               BcryptHash(req[p].newPassword)]]_vars

C15_Witness ==
    /\ ForgotReset(last.req)
    /\ ~isStrongPassword(last.req.newPassword)
    /\ last.resp = WeakPasswordReply
    /\ emailOtp[last.req.email].otp = last.req.otp
    /\ now < emailOtp[last.req.email].expiresAt

\* C16: change-password answers Unauthorized when currentPassword does not
\* match the stored hash, also when there is no stored hash; BadRequest when
\* newPassword equals currentPassword or is shorter than the minimum; every
\* failure leaves the stored hash as it is, and the hash is replaced only
\* after all checks passed.
C16_ChangePasswordFailures ==
    [][\A p \in Procs :
         (req[p].kind = "resetPassword" /\ pc'[p] # pc[p]) =>
            /\ pc[p] = "resetPassword_findUnique" =>
                 LET hash == users[req[p].token.id].passwordHash
                     matches == hash # NoHash
                                  /\ hash = BcryptHash(req[p].currentPassword)
                 IN /\ ~matches
                         => (Answered(p) /\ HttpStatus(last'.resp) = 401)
                    /\ (matches /\ (req[p].newPassword = req[p].currentPassword
                                     \/ Len(req[p].newPassword) < MinLength))
                         => (Answered(p) /\ HttpStatus(last'.resp) = 400)
                    /\ users' = users
            /\ users' # users => pc[p] = "resetPassword_update"]_vars

\* The failure kind verify is specified to report for a row and a code.
VerifyFailureKind(record, otp) ==
    IF record = NoRecord THEN "NotFound"
    ELSE IF now >= record.expiresAt THEN "Expired"
    ELSE IF record.otp # otp THEN "Mismatch"
    ELSE "none"

\* The failure kind an answer tells the caller.
SurfacedKind(resp) ==
    CASE resp.message = "OTP has expired." -> "Expired"
      [] resp.message = "Invalid OTP." -> "Mismatch"
      [] resp.message = "Invalid or expired OTP." -> "InvalidOrExpired"
      [] OTHER -> "none"

\* C17: a verify that must fail is answered at once, and the answer tells
\* the caller which of NotFound, Expired and Mismatch it was, in that
\* precedence.
C17_VerifyFailureKinds ==
    [][\A p \in Procs :
         (/\ pc[p] \in {"verifyOtpCode_findUnique", "verifyOtp_findUnique"}
          /\ pc'[p] # pc[p]
          /\ VerifyFailureKind(emailOtp[req[p].email], req[p].otp) # "none")
           => /\ Answered(p)
              /\ SurfacedKind(last'.resp) =
                   VerifyFailureKind(emailOtp[req[p].email], req[p].otp)]_vars

\* C18: an issue for an email replaces the row of that email and touches
\* no other; a verify passes only with the code of the row as it is now,
\* the one the latest issue wrote, so a replaced code is refused.
C18_NewCodeReplacesOld ==
    [][\A p \in Procs :
         LET e == req[p].email IN
         /\ (pc[p] = "sendOtp_upsert" /\ pc'[p] # pc[p]) =>
               /\ emailOtp'[e].otp = issued'[issueNo'].otp
               /\ issued'[issueNo'].email = e
               /\ emailOtp'[e].expiresAt = now + 10 * 60 * 1000
               /\ \A o \in AllEmails \ {e} : emailOtp'[o] = emailOtp[o]
         /\ (/\ pc[p] \in {"verifyOtpCode_findUnique", "verifyOtp_findUnique"}
             /\ pc'[p] \in {"verifyOtpCode_deleteMany", "verifyOtp_delete"}) =>
               /\ otpIssue[e] = issueNo \/ issued[issueNo].email # e
               /\ req[p].otp = issued[otpIssue[e]].otp
               /\ \A i \in 1..issueNo :
                     (i # otpIssue[e] /\ issued[i].email = e
                      /\ issued[i].otp # issued[otpIssue[e]].otp)
                       => req[p].otp # issued[i].otp]_vars

C18_Witness ==
    /\ issueNo = 2
    /\ issued[1] = [email |-> "a@x.com", otp |-> "123456"]
    /\ issued[2] = [email |-> "a@x.com", otp |-> "654321"]
    /\ emailOtp["a@x.com"].otp = "654321"
    /\ now < emailOtp["a@x.com"].expiresAt
    /\ last.req.kind = "signup"
    /\ last.req.email = "a@x.com"
    /\ last.req.otp = "123456"
    /\ last.resp = InvalidOrExpiredOtp

\* C19: POST /verify-otp with the live, unexpired code of the email goes on
\* to consume the code and then answers 200, whether or not a user has that
\* email; it never answers a failure after it consumed the code.
C19_VerifyOtpNeedsNoUser ==
    [][\A p \in Procs :
         LET e == req[p].email IN
         /\ (/\ pc[p] = "verifyOtp_findUnique" /\ pc'[p] # pc[p]
             /\ emailOtp[e] # NoRecord
             /\ emailOtp[e].otp = req[p].otp
             /\ now < emailOtp[e].expiresAt)
               => pc'[p] = "verifyOtp_delete"
         /\ (pc[p] = "verifyOtp_update" /\ pc'[p] # pc[p])
               => (Answered(p) /\ last'.resp.status = 200)]_vars

\* C20: the password path of signup creates an Identity only in a request
\* that verified a live, unexpired, matching code of the same email and
\* consumed it; a request with a missing, wrong or expired code creates
\* nothing.
C20_CreatedOnlyAfterVerified ==
    [][\A p \in Procs :
         (req[p].kind = "signup" /\ req[p].googleId = NoString
          /\ pc'[p] # pc[p]) =>
            LET e == req[p].email IN
            /\ (pc[p] = "verifyOtpCode_findUnique"
                 /\ pc'[p] = "verifyOtpCode_deleteMany")
                  => /\ emailOtp[e] # NoRecord
                     /\ emailOtp[e].otp = req[p].otp
                     /\ now < emailOtp[e].expiresAt
            /\ pc[p] = "verifyOtpCode_deleteMany"
                  => emailOtp'[e] = NoRecord
            /\ Len(users') > Len(users)
                  => /\ pc[p] = "signup_create"
                     /\ loc[p].email = e
                     /\ loc[p].isEmailVerified
                     /\ loc[p].record.otp = req[p].otp
                     /\ req[p].otp # NoString]_vars

\* C21: a verify that overlaps an issue for the same email removes only the
\* row it matched: when the upsert of the issue lands between the read and
\* the delete of the verify, the delete leaves the newly issued row in place.
C21_VerifyRemovesOnlyMatched ==
    [][\A p \in Procs :
         LET e == req[p].email IN
         (/\ pc[p] \in {"verifyOtpCode_deleteMany", "verifyOtp_delete"}
          /\ pc'[p] # pc[p]
          /\ otpIssue[e] # loc[p].issue)
           => emailOtp'[e] = emailOtp[e]]_vars

\* C22: the password hash of a stored Identity changes only in the update of
\* a forgotPassword request that read a stored row of that Identity's email
\* with the submitted code and consumed it, or in the update of a
\* change-password request whose token resolved to that Identity and whose
\* currentPassword matches the stored hash; no other handler changes it, and
\* forgotPassword neither answers with tokens nor touches the stored refresh
\* token.
C22_HashChangesOnlyByResetOrChange ==
    [][/\ \A i \in UserIds :
            users'[i].passwordHash # users[i].passwordHash =>
              \E p \in Procs :
                 /\ pc'[p] # pc[p]
                 /\ \/ /\ pc[p] = "forgotPassword_update"
                       /\ req[p].kind = "forgotPassword"
                       /\ users[i].email = req[p].email
                       /\ loc[p].record # NoRecord
                       /\ loc[p].record.otp = req[p].otp
                       /\ accepted[loc[p].issue] >= 1
                       /\ emailOtp[req[p].email] = NoRecord
                    \/ /\ pc[p] = "resetPassword_update"
                       /\ req[p].kind = "resetPassword"
                       /\ authenticateUser(req[p].token) = NoError
                       /\ ResolvedUser(req[p].token).id = i
                       /\ BcryptCompare(req[p].currentPassword,
                                        users[i].passwordHash)
       /\ \A p \in Procs :
            (req[p].kind = "forgotPassword" /\ pc'[p] # pc[p]) =>
               /\ Len(users') = Len(users)
               /\ \A i \in UserIds :
                    users'[i].refreshToken = users[i].refreshToken
       /\ last'.req.kind = "forgotPassword" => last'.resp.data = <<>>]_vars

C22_Witness ==
    /\ last.req.kind = "forgotPassword"
    /\ last.resp = ApiResponse(200, "Password reset successful.", <<>>)
    /\ \E i \in UserIds :
          /\ users[i].email = last.req.email
          /\ users[i].passwordHash = BcryptHash(last.req.newPassword)
          /\ users[i].refreshToken =
               generateRefreshToken(users[i].id, users[i].email)

\* The cause of a failure of the authentication gate for a presented token.
GateFailureCause(accessToken) ==
    IF accessToken = NoToken THEN "missing"
    ELSE IF jwtVerify(accessToken, "ACCESS_TOKEN_SECRET") = "TokenExpiredError"
    THEN "expired"
    ELSE "other"

\* auth.middleware.js authenticateUser: the message written for each cause.
GateFailureMessage(cause) ==
    CASE cause = "missing" -> "Access token is missing or invalid."
      [] cause = "expired" -> "Access token has expired."
      [] OTHER -> "Unauthorized access."

\* C23: every failure of the authentication gate is an error with status 401
\* that the client sees as 401, and its message tells the cause: the
\* missing-token message without a token, the expired message for an expired
\* token, the generic message for every other failure.
C23_GateFailuresAre401AndDistinct ==
    (last.req.kind \in {"allClients", "resetPassword"} /\ last.resp.status = -2)
      => LET error == last.resp.data[1] IN
         /\ error.statusCode = JsNumber(401)
         /\ HttpStatus(last.resp) = 401
         /\ error.message =
              JsString(GateFailureMessage(GateFailureCause(last.req.token)))

\* C24: a third-party signup whose claim has an unverified email is answered
\* Forbidden and creates nothing; otherwise the row it creates has the
\* email, the name and the subject id of the verified claim, whatever email,
\* name and googleId the request body carries.
C24_GoogleSignupTakesClaim ==
    [][/\ (/\ last'.req.kind = "signup"
           /\ last'.req.googleId # NoString
           /\ ~GoogleRejects(last'.req.googleId)
           /\ ~verifyGoogleIdToken(last'.req.googleId).emailVerified)
             => last'.resp.status = 403
       /\ \A p \in Procs :
            (/\ req[p].kind = "signup" /\ req[p].googleId # NoString
             /\ pc'[p] # pc[p])
              => LET claim == verifyGoogleIdToken(req[p].googleId) IN
                 /\ ~claim.emailVerified => users' = users
                 /\ Len(users') > Len(users) =>
                      /\ users'[Len(users')].email = claim.email
                      /\ users'[Len(users')].name = claim.name
                      /\ users'[Len(users')].googleId = claim.googleId]_vars

\* The answers that tell the caller a code was sent.
CodeSentReplies ==
    {OtpSentReply(kind) : kind \in {"signup", "forgotPassword", "resendOtp"}}

\* C25: when the mail transport rejects the message of an issue, the flow
\* that asked for the code (signup without a code, forgotPassword without a
\* code, resendOtp) answers no success; "code sent" is answered only by a
\* handler whose sendMail has resolved.
C25_NoSuccessWithoutDispatch ==
    [][/\ \A p \in Procs :
            /\ (pc[p] = "sendOtp_return" /\ pc'[p] # pc[p] /\ ~loc[p].delivered)
                  => /\ Answered(p)
                     /\ last'.resp \notin CodeSentReplies
                     /\ HttpStatus(last'.resp) >= 400
            /\ (Answered(p) /\ pc[p] # "idle" /\ last'.resp \in CodeSentReplies)
                  => (pc[p] = "sendOtp_return" /\ loc[p].delivered)
       /\ (last' # last /\ last'.resp \in CodeSentReplies)
            => \E q \in Procs : pc[q] = "sendOtp_return" /\ pc'[q] = "idle"]_vars

C25_Witness ==
    /\ last.req.kind \in {"signup", "forgotPassword", "resendOtp"}
    /\ last.resp = Thrown("sendMail rejected")
    /\ emailOtp[last.req.email] # NoRecord
    /\ otpIssue[last.req.email] = issueNo

\* C26: every row created by signup, on either path, or by memberSignup is
\* stored with isEmailVerified = true when it is created.
C26_CreatedVerified ==
    [][Len(users') > Len(users)
         => /\ origin'[Len(users')].kind \in {"signup", "memberSignup"}
            /\ users'[Len(users')].isEmailVerified]_vars

\* C27: a third-party login is answered with tokens of a row only when the
\* subject id of the verified claim is the googleId stored in that row; a
\* claim with the row's email and another subject id is not logged in.
C27_GoogleLoginMatchesSubject ==
    (/\ last.req.kind = "login"
     /\ last.req.googleId # NoString
     /\ last.resp.status = 200)
      => /\ verifyGoogleIdToken(last.req.googleId).googleId =
              last.resp.data[1].user.googleId
         /\ last.resp.data[1].accessToken.id = last.resp.data[1].user.id

\* C28: every row created by memberSignup has a role in {user, member} and a
\* status in {active, inactive}: the row gets the role and status of the
\* body in lower case and trimmed, a body whose role or status is then
\* outside those sets is answered 400 and creates nothing, and no row
\* created by memberSignup is an admin.
C28_MemberRoleAndStatus ==
    [][/\ \A i \in 1..Len(users') :
            origin'[i].kind = "memberSignup"
              => /\ users'[i].role \in {"user", "member"}
                 /\ users'[i].status \in {"active", "inactive"}
       /\ \A p \in Procs :
            (pc[p] = "memberSignup_create" /\ Len(users') > Len(users))
              => /\ LowerTrim(req[p].role) \in {"user", "member"}
                 /\ LowerTrim(req[p].status) \in {"active", "inactive"}
                 /\ users'[Len(users')].role = LowerTrim(req[p].role)
                 /\ users'[Len(users')].status = LowerTrim(req[p].status)
       /\ (/\ last'.req.kind = "memberSignup"
           /\ \/ LowerTrim(last'.req.role) \notin {"user", "member"}
              \/ LowerTrim(last'.req.status) \notin {"active", "inactive"})
            => /\ last'.resp.status = 400
               /\ started' # started => users' = users]_vars

C28_Witness ==
    /\ last.req.kind = "memberSignup"
    /\ last.req.role = " Member "
    /\ last.resp.status = 201
    /\ \E i \in UserIds :
          /\ origin[i].kind = "memberSignup"
          /\ users[i].role = "member"
          /\ users[i].status = "active"

\* The user records in the body of an answer.
BodyUsers(l) ==
    IF l.resp.status \notin {200, 201} \/ l.resp.data = <<>> THEN {}
    ELSE CASE l.req.kind \in {"signup", "login", "memberSignup"} ->
                {l.resp.data[1].user}
           [] l.req.kind = "updateMember" -> {l.resp.data[1]}
           [] l.req.kind = "getAllTasks" ->
                {l.resp.data[1][i].user : i \in 1..Len(l.resp.data[1])}
           [] OTHER -> {}

\* C29: no response body carries the password hash or the stored refresh
\* token of an Identity: not the bodies of signup, login and memberSignup,
\* not those of the member read and update endpoints, and not those of the
\* task read endpoints that embed the user of each task.
C29_NoSecretsInBodies ==
    \A user \in BodyUsers(last) :
        /\ "passwordHash" \notin DOMAIN user
        /\ "refreshToken" \notin DOMAIN user

\* The answers of a verify that refused the code.
VerifyRefusals ==
    {InvalidOrExpiredOtp, ApiErrorSend(400, "Invalid OTP."),
     ApiErrorSend(400, "OTP has expired.")}

\* C30: a verify that finds no row, another code or an expired row is
\* refused and leaves the store as it is: the row is neither removed nor
\* changed. Nothing counts attempts: whatever was refused before, a verify
\* that reads a row with the submitted code before its expiry goes on to
\* consume it, and an expired row stays until an issue replaces it.
C30_FailedVerifyChangesNothing ==
    [][\A p \in Procs :
         (/\ pc[p] \in {"verifyOtpCode_findUnique", "verifyOtp_findUnique"}
          /\ pc'[p] # pc[p])
           => LET record == emailOtp[req[p].email] IN
              /\ (\/ record = NoRecord
                  \/ record.otp # req[p].otp
                  \/ record.expiresAt < now)
                   => /\ Answered(p)
                      /\ last'.resp \in VerifyRefusals
              /\ Answered(p) => /\ last'.resp \in VerifyRefusals
                                /\ emailOtp' = emailOtp
                                /\ users' = users
                                /\ history' = history
              /\ (/\ record # NoRecord
                  /\ record.otp = req[p].otp
                  /\ now < record.expiresAt)
                   => pc'[p] \in {"verifyOtpCode_deleteMany", "verifyOtp_delete"}]_vars

C30_Witness ==
    /\ last.req.kind \in {"signup", "forgotPassword", "verifyOtp"}
    /\ last.resp \in VerifyRefusals
    /\ emailOtp[last.req.email] # NoRecord
    /\ emailOtp[last.req.email].otp = last.req.otp
    /\ emailOtp[last.req.email].expiresAt < now
====
